---- MODULE Spec2Model ----
(***************************************************************************)
(* The Blossom node of HealthNote-Relay (blossom/src/index.js): a          *)
(* WebSocket Nostr server over a LevelDB store.  Every inbound message     *)
(* starts an async handler; handlers of all connections interleave at      *)
(* their await points (the db operations), so a handler is modelled as a   *)
(* task that advances one db operation at a time.                          *)
(***************************************************************************)
EXTENDS Integers, Sequences, FiniteSets, TLC

VARIABLES
    clients,    \* the Map `clients`: open client ids, in insertion order
    subs,       \* subs[c]: the Map clientSubscriptions of c, in insertion order
    closed,     \* connections whose 'close' callback has run
    db,         \* the LevelDB store: primary entries and index keys
    out,        \* out[c]: the frames sent on c's socket, in order
    tasks,      \* one record per inbound message: the handler and its position
    accepted,   \* history: the broadcasts, in order, with the subscriptions then installed
    faults,     \* number of db.put calls that have thrown
    qin, qout,  \* input and result of a stand-alone queryEvents call
    relay       \* the main relay (relay.go): registered nodes, accepted events

vars == <<clients, subs, closed, db, out, tasks, accepted, faults, qin, qout, relay>>

----------------------------------------------------------------------------
(* Bounds *)

MaxMsgs == 3        \* inbound messages over all connections
MaxRejects == 1     \* of these, messages answered without a handler awaiting the db
MaxFaults == 1      \* db.put calls that throw
MaxCloses == 1      \* connections that close

Conns == {"c1", "c2"}

----------------------------------------------------------------------------
(* Events *)

HealthEventMinKind == 32018
HealthEventMaxKind == 32048
WorkoutRecordKind == 1301
ExerciseTemplateKind == 33401
WorkoutTemplateKind == 33402

NoSig == [signer |-> "", msg |-> 0]

\* The unsigned events clients build.  getEventHash is a hash of the canonical
\* serialization (pubkey, created_at, kind, tags, content); the model's hash is
\* the position of that serialization in this table, so ids are 1..4 and the
\* lexicographic order of hex ids is the order of these numbers.
Contents ==
    << [pubkey |-> "A", created_at |-> 1, kind |-> 33401,
        tags |-> << <<"t", "chest">>, <<"title", "Push">> >>, content |-> "x"],
       [pubkey |-> "A", created_at |-> 2, kind |-> 1301,
        tags |-> << <<"type", "Run">> >>, content |-> "y"],
       [pubkey |-> "B", created_at |-> 2, kind |-> 33401,
        tags |-> << >>, content |-> "z"],
       [pubkey |-> "B", created_at |-> 1, kind |-> 1,
        tags |-> << >>, content |-> "n"] >>

Canon(e) == <<e.pubkey, e.created_at, e.kind, e.tags, e.content>>

getEventHash(e) ==
    IF \E i \in 1..Len(Contents) : Canon(Contents[i]) = Canon(e)
    THEN CHOOSE i \in 1..Len(Contents) : Canon(Contents[i]) = Canon(e)
    ELSE 0

verifySignature(e) == e.sig = [signer |-> e.pubkey, msg |-> e.id]

MkEvent(c, id, sig) ==
    [id |-> id, pubkey |-> c.pubkey, created_at |-> c.created_at, kind |-> c.kind,
     tags |-> c.tags, content |-> c.content, sig |-> sig]

\* Contents[i] with its id computed and signed by its author.
Signed(i) == MkEvent(Contents[i], i, [signer |-> Contents[i].pubkey, msg |-> i])

NoEvent == MkEvent([pubkey |-> "", created_at |-> 0, kind |-> 0, tags |-> << >>,
                    content |-> ""], 0, NoSig)

ValidEvents == {Signed(1), Signed(2), Signed(3)}

EvMissingSig == MkEvent(Contents[1], 1, NoSig)
EvIdMismatch == MkEvent(Contents[2], 1, [signer |-> "A", msg |-> 1])
EvBadSig == MkEvent(Contents[3], 3, [signer |-> "A", msg |-> 3])
EvBadKind == Signed(4)

InvalidEvents == {EvMissingSig, EvIdMismatch, EvBadSig, EvBadKind}

isHealthEvent(e) == e.kind >= HealthEventMinKind /\ e.kind <= HealthEventMaxKind
isWorkoutEvent(e) ==
    e.kind = WorkoutRecordKind \/ e.kind = ExerciseTemplateKind
        \/ e.kind = WorkoutTemplateKind

\* A validation without the signature check.
ValidateNoSig(e) ==
    IF e.id = 0 \/ e.pubkey = "" \/ e.sig = NoSig THEN "missing"
    ELSE IF getEventHash(e) # e.id THEN "badid"
    ELSE IF ~isHealthEvent(e) /\ ~isWorkoutEvent(e) THEN "badkind"
    ELSE "ok"

\* The checks of handleEvent before the first db.put, in the code's order.
Validate(e) ==
    IF e.id = 0 \/ e.pubkey = "" \/ e.sig = NoSig THEN "missing"
    ELSE IF getEventHash(e) # e.id THEN "badid"
    ELSE IF ~verifySignature(e) THEN "badsig"
    ELSE IF ~isHealthEvent(e) /\ ~isWorkoutEvent(e) THEN "badkind"
    ELSE "ok"

NoticeFor(v) ==
    CASE v = "missing" -> "Invalid event: missing required fields"
      [] v = "badid" -> "Invalid event: id does not match content"
      [] v = "badsig" -> "Invalid event: signature verification failed"
      [] OTHER -> "Event rejected: not a supported health or workout event"

----------------------------------------------------------------------------
(* The store *)

\* String.prototype.toLowerCase on the tag values of the model.
toLowerCase(s) ==
    CASE s = "Push" -> "push"
      [] s = "Run" -> "run"
      [] OTHER -> s

Key(idx, k, n, id) == [idx |-> idx, k |-> k, n |-> n, id |-> id]

RECURSIVE TagKeys(_, _, _)
\* The keys handleEvent writes for the tags of e from position i on.
TagKeys(e, i, names) ==
    IF i > Len(e.tags) THEN << >>
    ELSE LET tag == e.tags[i]
             here == IF Len(tag) >= 2 /\ tag[1] \in DOMAIN names
                     THEN << Key(names[tag[1]], toLowerCase(tag[2]), 0, e.id) >>
                     ELSE << >>
         IN here \o TagKeys(e, i + 1, names)

\* The db.put calls of handleEvent for an accepted event, in order.
PutKeys(e) ==
    << Key("event", "", 0, e.id),
       Key("author", e.pubkey, 0, e.id),
       Key("kind", "", e.kind, e.id) >>
    \o (IF e.kind = ExerciseTemplateKind
        THEN TagKeys(e, 1, [title |-> "exercise"])
        ELSE IF e.kind = WorkoutRecordKind
        THEN TagKeys(e, 1, [title |-> "workout:title", type |-> "workout:type"])
        ELSE << >>)

EmptyDb == [event |-> [i \in {} |-> NoEvent], index |-> {}]

\* A db.put that writes every key as an index entry, the primary key too.
DbPutIndexOnly(d, key, e) == [d EXCEPT !.index = d.index \cup {key}]

\* db.put(key, value): the primary entry holds the event, an index entry its id.
DbPut(d, key, e) ==
    IF key.idx = "event"
    THEN [d EXCEPT !.event = [i \in DOMAIN d.event \cup {e.id} |->
                                 IF i = e.id THEN e ELSE d.event[i]]]
    ELSE [d EXCEPT !.index = d.index \cup {key}]

RECURSIVE PutAll(_, _, _)
PutAll(d, keys, e) ==
    IF keys = << >> THEN d ELSE PutAll(DbPut(d, Head(keys), e), Tail(keys), e)

RECURSIVE StoreOf(_)
\* The store after the events of S were each published without error.
StoreOf(S) ==
    IF S = {} THEN EmptyDb
    ELSE LET e == CHOOSE x \in S : TRUE
         IN PutAll(StoreOf(S \ {e}), PutKeys(e), e)

RECURSIVE SortAsc(_)
SortAsc(S) ==
    IF S = {} THEN << >>
    ELSE LET m == CHOOSE x \in S : \A y \in S : x <= y
         IN <<m>> \o SortAsc(S \ {m})

\* db.iterator over the keys `idx:k:` .. : the ids under that prefix, in key order.
IterIds(d, idx, k, n) ==
    SortAsc({key.id : key \in {x \in d.index : x.idx = idx /\ x.k = k /\ x.n = n}})

----------------------------------------------------------------------------
(* Filters *)

\* A filter object.  `has` names the keys present in it; `tags` holds its
\* `#x` keys.  The filter `null` is a JSON value a client may send in a REQ.
NoFilter ==
    [isnull |-> FALSE, has |-> {}, ids |-> << >>, authors |-> << >>, kinds |-> << >>,
     since |-> 0, until |-> 0, limit |-> 0, tags |-> << >>]

NullFilter == [NoFilter EXCEPT !.isnull = TRUE]

fIds == [NoFilter EXCEPT !.has = {"ids"}, !.ids = <<2, 1>>]
fIdsAuthor == [NoFilter EXCEPT !.has = {"ids", "authors"}, !.ids = <<1, 3>>,
                               !.authors = <<"A">>]
fAuthor == [NoFilter EXCEPT !.has = {"authors"}, !.authors = <<"A">>]
fAuthorSince == [NoFilter EXCEPT !.has = {"authors", "since"}, !.authors = <<"A">>,
                                 !.since = 2]
fAuthorKind == [NoFilter EXCEPT !.has = {"authors", "kinds"}, !.authors = <<"A">>,
                                !.kinds = <<1301>>]
fAuthorsLimit == [NoFilter EXCEPT !.has = {"authors", "limit"},
                                  !.authors = <<"B", "A">>, !.limit = 1]
fKind == [NoFilter EXCEPT !.has = {"kinds"}, !.kinds = <<33401>>]
fKindUntil == [NoFilter EXCEPT !.has = {"kinds", "until"}, !.kinds = <<33401, 1301>>,
                               !.until = 1]
fKindTag == [NoFilter EXCEPT !.has = {"kinds"}, !.kinds = <<33401>>,
                             !.tags = << [name |-> "t", values |-> <<"chest">>] >>]
fTag == [NoFilter EXCEPT !.tags = << [name |-> "t", values |-> <<"chest">>] >>]
fKindsEmpty == [NoFilter EXCEPT !.has = {"kinds"}]
fKindsEmptyAuthor == [NoFilter EXCEPT !.has = {"kinds", "authors"}, !.authors = <<"B">>]
fSince == [NoFilter EXCEPT !.has = {"since"}, !.since = 1]
fEmpty == NoFilter
fId == [NoFilter EXCEPT !.has = {"ids"}, !.ids = <<3>>]

InSeq(x, s) == \E i \in 1..Len(s) : s[i] = x

isNonEmptyArray(f, field, v) == field \in f.has /\ Len(v) > 0

RECURSIVE Collect(_, _, _)
\* The inner loops of queryEvents over the candidate ids: db.get of the
\* primary, skipped when it is missing or its id is in processedIds.
Collect(cands, d, processed) ==
    IF cands = << >> THEN [events |-> << >>, processed |-> processed]
    ELSE LET id == Head(cands)
             found == id \in DOMAIN d.event /\ id \notin processed
             rest == Collect(Tail(cands), d,
                             IF found THEN processed \cup {id} ELSE processed)
         IN [events |-> (IF found THEN << d.event[id] >> ELSE << >>) \o rest.events,
             processed |-> rest.processed]

RECURSIVE Scan(_, _, _, _)
\* The candidate ids of an authors/kinds branch: the index ranges, value by value.
Scan(d, idx, vals, i) ==
    IF i > Len(vals) THEN << >>
    ELSE (IF idx = "author" THEN IterIds(d, "author", vals[i], 0)
          ELSE IterIds(d, "kind", "", vals[i]))
         \o Scan(d, idx, vals, i + 1)

RECURSIVE SelectSince(_, _)
\* events.filter(event => event.created_at >= filter.since)
SelectSince(s, since) ==
    IF s = << >> THEN << >>
    ELSE (IF Head(s).created_at >= since THEN << Head(s) >> ELSE << >>)
         \o SelectSince(Tail(s), since)

RECURSIVE SelectUntil(_, _)
\* events.filter(event => event.created_at <= filter.until)
SelectUntil(s, until) ==
    IF s = << >> THEN << >>
    ELSE (IF Head(s).created_at <= until THEN << Head(s) >> ELSE << >>)
         \o SelectUntil(Tail(s), until)

Slice(s, n) == IF Len(s) <= n THEN s ELSE SubSeq(s, 1, n)

\* One iteration of the loop `for (const filter of filters)` of queryEvents.
QueryFilter(d, f, processed) ==
    LET cands == IF isNonEmptyArray(f, "ids", f.ids) THEN f.ids
                 ELSE IF isNonEmptyArray(f, "authors", f.authors)
                 THEN Scan(d, "author", f.authors, 1)
                 ELSE IF isNonEmptyArray(f, "kinds", f.kinds)
                 THEN Scan(d, "kind", f.kinds, 1)
                 ELSE << >>
        c == Collect(cands, d, processed)
        e1 == IF "since" \in f.has /\ f.since # 0
              THEN SelectSince(c.events, f.since) ELSE c.events
        e2 == IF "until" \in f.has /\ f.until # 0
              THEN SelectUntil(e1, f.until) ELSE e1
        e3 == IF "limit" \in f.has /\ f.limit > 0 THEN Slice(e2, f.limit) ELSE e2
    IN [events |-> e3, processed |-> c.processed]

\* Does the filter's branch of queryEvents await a db operation?
ReadsDb(f) ==
    isNonEmptyArray(f, "ids", f.ids) \/ isNonEmptyArray(f, "authors", f.authors)
        \/ isNonEmptyArray(f, "kinds", f.kinds)

RECURSIVE QueryFrom(_, _, _, _, _)
QueryFrom(d, filters, i, results, processed) ==
    IF i > Len(filters) THEN [err |-> FALSE, events |-> results]
    ELSE IF filters[i].isnull THEN [err |-> TRUE, events |-> << >>]
    ELSE LET r == QueryFilter(d, filters[i], processed)
         IN QueryFrom(d, filters, i + 1, results \o r.events, r.processed)

\* queryEvents(filters) against one state of the store; err: it threw.
queryEvents(d, filters) ==
    IF Len(filters) = 0 THEN [err |-> FALSE, events |-> << >>]
    ELSE QueryFrom(d, filters, 1, << >>, {})

\* The body of the loop of eventMatchesFilters: no check `continue`s.
FilterPasses(e, f) ==
    /\ (isNonEmptyArray(f, "ids", f.ids) => InSeq(e.id, f.ids))
    /\ (isNonEmptyArray(f, "authors", f.authors) => InSeq(e.pubkey, f.authors))
    /\ (isNonEmptyArray(f, "kinds", f.kinds) => InSeq(e.kind, f.kinds))
    /\ ~("since" \in f.has /\ f.since # 0 /\ e.created_at < f.since)
    /\ ~("until" \in f.has /\ f.until # 0 /\ e.created_at > f.until)

RECURSIVE MatchFrom(_, _, _)
MatchFrom(e, filters, i) ==
    IF i > Len(filters) THEN "false"
    ELSE IF filters[i].isnull THEN "throw"
    ELSE IF FilterPasses(e, filters[i]) THEN "true"
    ELSE MatchFrom(e, filters, i + 1)

\* eventMatchesFilters(event, filters): "true", "false", or "throw" when it
\* reads a field of a null filter.
eventMatchesFilters(e, filters) ==
    IF Len(filters) = 0 THEN "false" ELSE MatchFrom(e, filters, 1)

----------------------------------------------------------------------------
(* Frames, messages and handler tasks *)

Frame(type, sub, id, ev, ok, msg, by, live) ==
    [type |-> type, sub |-> sub, id |-> id, ev |-> ev, ok |-> ok, msg |-> msg,
     by |-> by, live |-> live]

\* by: the inbound message whose handler sent the frame (0: the connection
\* callback); live: sent by broadcastEvent.  Both are history, not wire content.
Notice(msg, by) == Frame("NOTICE", "", 0, NoEvent, FALSE, msg, by, FALSE)
EventFrame(sub, e, by, live) == Frame("EVENT", sub, e.id, e, FALSE, "", by, live)
Eose(sub, by) == Frame("EOSE", sub, 0, NoEvent, FALSE, "", by, FALSE)
OkFrame(id, ok, msg, by) == Frame("OK", "", id, NoEvent, ok, msg, by, FALSE)

\* ws.send: a frame sent on a socket that has closed is not delivered.
Send(o, c, frame) == IF c \in closed THEN o ELSE [o EXCEPT ![c] = Append(@, frame)]

RECURSIVE SendAll(_, _, _)
SendAll(o, c, frames) ==
    IF frames = << >> THEN o ELSE SendAll(Send(o, c, Head(frames)), c, Tail(frames))

Labels == {"s1"}

\* The filter lists of the REQ messages clients send.
ReqFilterLists ==
    { << >>, << fEmpty >>, << fKindTag >>, << NullFilter >>, << fAuthor, fKind >> }

\* The events clients publish: two valid ones (one with an indexed tag, one
\* without tags) and one for each check of handleEvent that rejects.
PubEvents == {Signed(1), Signed(3)} \cup InvalidEvents

Msg(type, e, undef, label, filters) ==
    [type |-> type, ev |-> e, undef |-> undef, label |-> label, filters |-> filters]

\* The inbound messages: EVENT with an event or without one, REQ with and
\* without a label, CLOSE with and without a label, an unknown command, a JSON
\* value that is no array, and text that is no JSON.
Messages ==
    {Msg("EVENT", e, FALSE, "", << >>) : e \in PubEvents}
    \cup {Msg("EVENT", NoEvent, TRUE, "", << >>)}
    \cup {Msg("REQ", NoEvent, FALSE, l, fl) : l \in Labels, fl \in ReqFilterLists}
    \cup {Msg("REQ", NoEvent, FALSE, "", << fEmpty >>)}
    \cup {Msg("CLOSE", NoEvent, FALSE, l, << >>) : l \in Labels \cup {""}}
    \cup {Msg(t, NoEvent, FALSE, "", << >>) : t \in {"PING", "NONARRAY", "BADJSON"}}

\* The handler of message m of client c.  pc: its position; k: the db.put or
\* the filter it is at; results, processed: the locals of queryEvents; start: the
\* number of frames sent to c before m arrived (history).
Task(c, m, pc, k) ==
    [conn |-> c, type |-> m.type, ev |-> m.ev, undef |-> m.undef, label |-> m.label,
     filters |-> m.filters, pc |-> pc, k |-> k, results |-> << >>, processed |-> {},
     start |-> Len(out[c])]

\* A subscriptions table that is a list: every REQ adds an entry.
MapAppend(m, label, filters) == Append(m, [label |-> label, filters |-> filters])

\* Map.prototype.set(label, filters) on a subscriptions map.
MapSet(m, label, filters) ==
    IF \E i \in 1..Len(m) : m[i].label = label
    THEN [i \in 1..Len(m) |-> IF m[i].label = label
                              THEN [label |-> label, filters |-> filters] ELSE m[i]]
    ELSE Append(m, [label |-> label, filters |-> filters])

\* Map.prototype.clear(), whatever the label.
MapClear(m, label) == << >>

RECURSIVE MapDelete(_, _)
\* Map.prototype.delete(label)
MapDelete(m, label) ==
    IF m = << >> THEN << >>
    ELSE (IF Head(m).label = label THEN << >> ELSE << Head(m) >>)
         \o MapDelete(Tail(m), label)

\* A 'close' callback that leaves the client in the table.
SeqKeep(s, x) == s

RECURSIVE SeqRemove(_, _)
SeqRemove(s, x) ==
    IF s = << >> THEN << >>
    ELSE (IF Head(s) = x THEN << >> ELSE << Head(s) >>) \o SeqRemove(Tail(s), x)

RECURSIVE SubList(_, _)
\* The (client, subscription) pairs in the iteration order of broadcastEvent.
SubList(cl, sb) ==
    IF cl = << >> THEN << >>
    ELSE [i \in 1..Len(sb[Head(cl)]) |->
             [conn |-> Head(cl), label |-> sb[Head(cl)][i].label,
              filters |-> sb[Head(cl)][i].filters]]
         \o SubList(Tail(cl), sb)

RECURSIVE broadcastEvent(_, _, _, _, _)
\* broadcastEvent(event) over the pairs list[i..]: the sockets after it, and
\* whether eventMatchesFilters threw (which ends the loops).
broadcastEvent(list, i, e, o, by) ==
    IF i > Len(list) THEN [out |-> o, threw |-> FALSE]
    ELSE LET m == eventMatchesFilters(e, list[i].filters)
         IN IF m = "throw" THEN [out |-> o, threw |-> TRUE]
            ELSE broadcastEvent(list, i + 1, e,
                     IF m = "true"
                     THEN Send(o, list[i].conn, EventFrame(list[i].label, e, by, TRUE))
                     ELSE o, by)

RECURSIVE NextAwait(_, _)
\* The synchronous run of queryEvents' loop from filter i: the index of the
\* next filter that awaits the db or throws, or Len + 1.
NextAwait(filters, i) ==
    IF i > Len(filters) THEN i
    ELSE IF filters[i].isnull \/ ReadsDb(filters[i]) THEN i
    ELSE NextAwait(filters, i + 1)

RECURSIVE EventFrames(_, _, _)
EventFrames(sub, events, by) ==
    IF events = << >> THEN << >>
    ELSE << EventFrame(sub, Head(events), by, FALSE) >>
         \o EventFrames(sub, Tail(events), by)

----------------------------------------------------------------------------
(* The main relay (relay/pkg/relay/relay.go) *)

ReferenceKind == 30078
PublicHealthMinKind == 32040
LimitedHealthMinKind == 32030
LimitedHealthMaxKind == 32039

\* The relay before any registration: blossomNodes is an empty map.  main:
\* the events the embedded DefaultRelay accepted, in order; calls: the
\* AcceptEvent calls with their outcome (history); now: the clock.  sent: the
\* requests made to Blossom nodes; notices: the NOTICE frames the relay
\* writes about a routed event.  resp: the last answer of the registration
\* endpoint.  events: the rows of the events table; swept: the last run of
\* DeleteExpiredEvents.
NoResp == [status |-> 0]
\* The Blossom node before server.listen: pc is the position of its start-up
\* sequence, reply the answer to its start-up request.
NoStartup == [pc |-> "init", reply |-> ""]
NoSweep == [at |-> -1]
NoRelay ==
    [nodes |-> [k \in {} |-> 0], main |-> << >>, calls |-> << >>, now |-> 0,
     sent |-> << >>, notices |-> << >>, resp |-> NoResp,
     events |-> {}, swept |-> NoSweep, blossom |-> NoStartup]

\* The kinds and the tag lists of the events clients send to the main relay.
RelayKinds == << WorkoutRecordKind, ExerciseTemplateKind, 32018, 32030, 32040, 1 >>

RelayTagLists ==
    << << >>,
       << <<"privacy", "private">> >>,
       << <<"privacy_level", "friends">>, <<"t", "chest">> >>,
       << <<"privacy", "secret">>, <<"privacy", "public">>, <<"privacy", "private">> >>,
       << <<"t", "chest">>, <<"privacy">>, <<"privacy", "limited">> >>,
       << <<"privacy_level">>, <<"privacy", "public">> >>,
       << << >>, <<"privacy", "private">> >>,
       << <<"privacy", "secret">>, <<"privacy_level">> >>,
       << <<"blossom", "N2">>, <<"privacy", "private">>, <<"d", "x">> >> >>

RelayEvent(i, j) ==
    [id |-> Len(RelayTagLists) * i + j, pubkey |-> "A", created_at |-> 1,
     kind |-> RelayKinds[i], tags |-> RelayTagLists[j], content |-> "c",
     sig |-> [signer |-> "A", msg |-> Len(RelayTagLists) * i + j]]

RelayEvents ==
    {RelayEvent(i, j) : i \in 1..Len(RelayKinds), j \in 1..Len(RelayTagLists)}

RECURSIVE PrivacyFrom(_, _)
\* The loop over event.Tags of ClassifyEvent from tag i on: the level of the
\* first tag that returns, "none" when the loop ends, "panic" when an index
\* expression is out of range.  The condition is
\* (len(tag) >= 2 && tag[0] == "privacy") || tag[0] == "privacy_level".
PrivacyFrom(tags, i) ==
    IF i > Len(tags) THEN "none"
    ELSE LET tag == tags[i]
         IN IF Len(tag) >= 2 /\ tag[1] = "privacy"
            THEN (CASE tag[2] = "private" -> "Private"
                    [] tag[2] \in {"limited", "friends"} -> "Limited"
                    [] tag[2] = "public" -> "Public"
                    [] OTHER -> PrivacyFrom(tags, i + 1))
            ELSE IF Len(tag) = 0 THEN "panic"
            ELSE IF tag[1] # "privacy_level" THEN PrivacyFrom(tags, i + 1)
            ELSE IF Len(tag) < 2 THEN "panic"
            ELSE (CASE tag[2] = "private" -> "Private"
                    [] tag[2] \in {"limited", "friends"} -> "Limited"
                    [] tag[2] = "public" -> "Public"
                    [] OTHER -> PrivacyFrom(tags, i + 1))

\* ClassifyEvent(event)
ClassifyEvent(e) ==
    IF isWorkoutEvent(e)
    THEN LET p == PrivacyFrom(e.tags, 1)
         IN IF p # "none" THEN p
            ELSE IF e.kind = WorkoutRecordKind THEN "Limited" ELSE "Public"
    ELSE IF isHealthEvent(e)
    THEN LET p == PrivacyFrom(e.tags, 1)
         IN IF p # "none" THEN p
            ELSE IF e.kind >= PublicHealthMinKind /\ e.kind <= HealthEventMaxKind
            THEN "Public"
            ELSE IF e.kind >= LimitedHealthMinKind /\ e.kind <= LimitedHealthMaxKind
            THEN "Limited"
            ELSE "Private"
    ELSE "Public"

\* The nodes clients register: two keys, one of them with two descriptions.
RegNodes ==
    { [url |-> "u1", pubkey |-> "N1", metrics |-> << 32018 >>],
      [url |-> "u2", pubkey |-> "N2", metrics |-> << 32018, WorkoutRecordKind >>],
      [url |-> "u3", pubkey |-> "N1", metrics |-> << >>] }

NoNode == [url |-> "", pubkey |-> "", metrics |-> << >>, last_seen |-> 0]

RECURSIVE BlossomTagFrom(_, _, _)
\* The first loop of FindBlossomNodeForEvent: the node named by the first
\* blossom tag that names a registered node, or NoNode.
BlossomTagFrom(nodes, tags, i) ==
    IF i > Len(tags) THEN NoNode
    ELSE IF Len(tags[i]) >= 2 /\ tags[i][1] = "blossom" /\ tags[i][2] \in DOMAIN nodes
    THEN nodes[tags[i][2]]
    ELSE BlossomTagFrom(nodes, tags, i + 1)

\* FindBlossomNodeForEvent(event): the nodes it can return.  The second loop
\* ranges over a Go map, whose iteration order is not fixed: any node that
\* lists the kind can be the first one found.
FindBlossomNodeForEvent(nodes, e) ==
    LET tagged == BlossomTagFrom(nodes, e.tags, 1)
        supporting == {nodes[k] : k \in {x \in DOMAIN nodes : InSeq(e.kind, nodes[x].metrics)}}
    IN IF tagged # NoNode THEN {tagged}
       ELSE IF supporting # {} THEN supporting
       ELSE {NoNode}

\* GetBlossomNodes(): the registered nodes (in the order of a Go map range,
\* which is not fixed).
GetBlossomNodes(nodes) == {nodes[k] : k \in DOMAIN nodes}

RECURSIVE EchoTags(_, _)
\* The tags d, t and subject of the original event, in order.
EchoTags(tags, i) ==
    IF i > Len(tags) THEN << >>
    ELSE (IF Len(tags[i]) >= 2 /\ tags[i][1] \in {"d", "t", "subject"}
          THEN << tags[i] >> ELSE << >>)
         \o EchoTags(tags, i + 1)

\* Go's string(n) of an integer n: the one-character string of code point n,
\* not the decimal digits of n.
RuneString(n) == [rune |-> n]

\* createReferenceEvent(event, node): no id, no pubkey, no sig are set.
createReferenceEvent(e, node, now) ==
    [id |-> 0, pubkey |-> "", created_at |-> now, kind |-> ReferenceKind,
     tags |-> << <<"e", e.id>>, <<"p", e.pubkey>>, <<"kind", RuneString(e.kind)>>,
                 <<"blossom", node.pubkey>>, <<"url", node.url>> >>
              \o EchoTags(e.tags, 1),
     content |-> "", sig |-> NoSig]

\* r.DefaultRelay.AcceptEvent(ctx, event) of the embedded relay: it accepts
\* the event (ok) or refuses it.
DefaultAccept(main, e, ok) == IF ok THEN Append(main, e) ELSE main

----------------------------------------------------------------------------
(* The server *)

\* matched: the events eventMatchesFilters accepts for the same filter list.
NoQuery == [done |-> FALSE, err |-> FALSE, events |-> << >>, matched |-> {}]

Init ==
    /\ clients = << >>
    /\ subs = [c \in Conns |-> << >>]
    /\ closed = {}
    /\ db = EmptyDb
    /\ out = [c \in Conns |-> << >>]
    /\ tasks = << >>
    /\ accepted = << >>
    /\ faults = 0
    /\ qin = << >>
    /\ qout = NoQuery
    /\ relay = NoRelay

IsOpen(c) == InSeq(c, clients)

Done(t) == [t EXCEPT !.pc = "done"]

\* wss.on('connection'): register the client, send the welcome NOTICE.  Client
\* ids are random; the model names the clients in the order they connect.
Connect(c) ==
    /\ ~IsOpen(c) /\ c \notin closed
    /\ (c = "c2" => (IsOpen("c1") \/ "c1" \in closed))
    /\ clients' = Append(clients, c)
    /\ subs' = [subs EXCEPT ![c] = << >>]
    /\ out' = [out EXCEPT ![c] =
                  Append(@, Notice("Welcome to Health & Fitness Blossom Node", 0))]
    /\ UNCHANGED <<closed, db, tasks, accepted, faults, qin, qout, relay>>

\* ws.on('close'): clients.delete(clientId); the client's subscriptions map
\* goes with it.
Close(c) ==
    /\ IsOpen(c)
    /\ Cardinality(closed) < MaxCloses
    /\ clients' = SeqRemove(clients, c)
    /\ subs' = [subs EXCEPT ![c] = << >>]
    /\ closed' = closed \cup {c}
    /\ UNCHANGED <<db, out, tasks, accepted, faults, qin, qout, relay>>

\* A default branch that answers nothing to an unknown command.
RecvOtherSilent(c, m) ==
    /\ m.type \notin {"EVENT", "REQ", "CLOSE"}
    /\ tasks' = Append(tasks, Task(c, m, "done", 0))
    /\ out' = IF m.type = "BADJSON"
              THEN Send(out, c, Notice("Error processing message", Len(tasks) + 1))
              ELSE out
    /\ UNCHANGED <<clients, subs, closed, db, accepted, faults, qin, qout, relay>>

\* ws.on('message') for a message that is no EVENT, REQ or CLOSE: text that
\* JSON.parse rejects, a JSON value that is no array, an unknown command.
RecvOther(c, m) ==
    /\ m.type \notin {"EVENT", "REQ", "CLOSE"}
    /\ tasks' = Append(tasks, Task(c, m, "done", 0))
    /\ out' = CASE m.type = "BADJSON" ->
                     Send(out, c, Notice("Error processing message", Len(tasks) + 1))
                [] m.type = "NONARRAY" -> out
                [] OTHER ->
                     Send(out, c, Notice("Unknown message type: PING", Len(tasks) + 1))
    /\ UNCHANGED <<clients, subs, closed, db, accepted, faults, qin, qout, relay>>

\* handleCloseSubscription
RecvClose(c, m) ==
    /\ m.type = "CLOSE"
    /\ tasks' = Append(tasks, Task(c, m, "done", 0))
    /\ subs' = IF m.label # "" THEN [subs EXCEPT ![c] = MapDelete(@, m.label)] ELSE subs
    /\ UNCHANGED <<clients, closed, db, out, accepted, faults, qin, qout, relay>>

\* handleEvent up to its first await: the validation, then the first db.put
\* is under way.  An EVENT message without an event throws in the try block
\* and again in the catch block, and ws.on('message') answers with a NOTICE.
RecvEvent(c, m) ==
    /\ m.type = "EVENT"
    /\ LET t == Len(tasks) + 1
           v == Validate(m.ev)
       IN IF m.undef
          THEN /\ tasks' = Append(tasks, Task(c, m, "done", 0))
               /\ out' = Send(out, c, Notice("Error processing message", t))
          ELSE IF v # "ok"
          THEN /\ tasks' = Append(tasks, Task(c, m, "done", 0))
               /\ out' = Send(out, c, Notice(NoticeFor(v), t))
          ELSE /\ tasks' = Append(tasks, Task(c, m, "put", 1))
               /\ out' = out
    /\ UNCHANGED <<clients, subs, closed, db, accepted, faults, qin, qout, relay>>

\* One db.put of handleEvent completes and the next one is under way.
PutStep(t) ==
    /\ tasks[t].pc = "put"
    /\ LET e == tasks[t].ev
           keys == PutKeys(e)
       IN /\ db' = DbPut(db, keys[tasks[t].k], e)
          /\ tasks' = [tasks EXCEPT ![t] =
                          IF @.k = Len(keys) THEN [@ EXCEPT !.pc = "finish"]
                          ELSE [@ EXCEPT !.k = @ + 1]]
    /\ UNCHANGED <<clients, subs, closed, out, accepted, faults, qin, qout, relay>>

\* A db.put of handleEvent throws: the catch block sends OK false.
PutFail(t) ==
    /\ tasks[t].pc = "put"
    /\ faults < MaxFaults
    /\ faults' = faults + 1
    /\ tasks' = [tasks EXCEPT ![t] = Done(@)]
    /\ out' = Send(out, tasks[t].conn,
                   OkFrame(tasks[t].ev.id, FALSE, "Error storing event", t))
    /\ UNCHANGED <<clients, subs, closed, db, accepted, qin, qout, relay>>

\* handleEvent after its last await: broadcastEvent, then OK true; when
\* eventMatchesFilters throws, the catch block sends OK false instead.
FinishEvent(t) ==
    /\ tasks[t].pc = "finish"
    /\ LET e == tasks[t].ev
           installed == SubList(clients, subs)
           b == broadcastEvent(installed, 1, e, out, t)
       IN /\ out' = Send(b.out, tasks[t].conn,
                         IF b.threw THEN OkFrame(e.id, FALSE, "Error storing event", t)
                         ELSE OkFrame(e.id, TRUE, "", t))
          /\ accepted' = Append(accepted, [by |-> t, ev |-> e, subs |-> installed,
                                           threw |-> b.threw])
    /\ tasks' = [tasks EXCEPT ![t] = Done(@)]
    /\ UNCHANGED <<clients, subs, closed, db, faults, qin, qout, relay>>

\* The position of handleSubscription after the synchronous run of
\* queryEvents from filter i: awaiting the db for filter j, thrown, or returned.
AfterSync(t, i) ==
    LET j == NextAwait(t.filters, i)
    IN IF j > Len(t.filters) THEN [t EXCEPT !.pc = "send", !.k = j]
       ELSE IF t.filters[j].isnull THEN [t EXCEPT !.pc = "fail", !.k = j]
       ELSE [t EXCEPT !.pc = "query", !.k = j]

\* The frames handleSubscription sends once queryEvents has settled.
ReplyFrames(t, by) ==
    IF t.pc = "fail"
    THEN << Notice("Error processing subscription", by) >>
    ELSE EventFrames(t.label, t.results, by) \o << Eose(t.label, by) >>

\* handleSubscription up to its first await of the db: the label check, the
\* subscription saved, queryEvents started.  When no filter reads the db,
\* queryEvents settles without yielding to another callback and the reply is
\* sent at once.
RecvReq(c, m) ==
    /\ m.type = "REQ"
    /\ LET t == Len(tasks) + 1
           start == AfterSync(Task(c, m, "query", 1), 1)
       IN IF m.label = ""
          THEN /\ tasks' = Append(tasks, Task(c, m, "done", 0))
               /\ out' = Send(out, c,
                     Notice("Invalid subscription: missing subscription ID", t))
               /\ subs' = subs
          ELSE /\ subs' = [subs EXCEPT ![c] = MapSet(@, m.label, m.filters)]
               /\ IF start.pc = "query"
                  THEN /\ tasks' = Append(tasks, start)
                       /\ out' = out
                  ELSE /\ tasks' = Append(tasks, Done(start))
                       /\ out' = SendAll(out, c, ReplyFrames(start, t))
    /\ UNCHANGED <<clients, closed, db, accepted, faults, qin, qout, relay>>

\* The db reads of queryEvents for one filter complete, and the loop runs on
\* to the next filter that reads the db.  (The reads of one filter are taken
\* against one state of the store; reads of different filters are not.)
ReadStep(t) ==
    /\ tasks[t].pc = "query"
    /\ LET cur == tasks[t]
           r == QueryFilter(db, cur.filters[cur.k], cur.processed)
       IN tasks' = [tasks EXCEPT ![t] =
                       AfterSync([cur EXCEPT !.results = @ \o r.events,
                                             !.processed = r.processed], cur.k + 1)]
    /\ UNCHANGED <<clients, subs, closed, db, out, accepted, faults, qin, qout, relay>>

\* handleSubscription after `await queryEvents(filters)`: the backlog frames
\* and EOSE, or the NOTICE of the catch block.
SendStep(t) ==
    /\ tasks[t].pc \in {"send", "fail"}
    /\ out' = SendAll(out, tasks[t].conn, ReplyFrames(tasks[t], t))
    /\ tasks' = [tasks EXCEPT ![t] = Done(@)]
    /\ UNCHANGED <<clients, subs, closed, db, accepted, faults, qin, qout, relay>>

\* The messages whose handler ends before it awaits the db and changes no
\* state of the server.
Rejected(m) ==
    \/ m.type \notin {"EVENT", "REQ", "CLOSE"}
    \/ m.type = "EVENT" /\ (m.undef \/ Validate(m.ev) # "ok")
    \/ m.type \in {"REQ", "CLOSE"} /\ m.label = ""

Recv(c, m) ==
    /\ IsOpen(c)
    /\ Len(tasks) < MaxMsgs
    /\ Rejected(m) =>
           Cardinality({i \in 1..Len(tasks) : Rejected(tasks[i])}) < MaxRejects
    /\ \/ RecvEvent(c, m)
       \/ RecvReq(c, m)
       \/ RecvClose(c, m)
       \/ RecvOther(c, m)

Next ==
    \/ \E c \in Conns : Connect(c)
    \/ \E c \in Conns : Close(c)
    \/ \E c \in Conns, m \in Messages : Recv(c, m)
    \/ \E t \in 1..Len(tasks) : PutStep(t)
    \/ \E t \in 1..Len(tasks) : PutFail(t)
    \/ \E t \in 1..Len(tasks) : FinishEvent(t)
    \/ \E t \in 1..Len(tasks) : ReadStep(t)
    \/ \E t \in 1..Len(tasks) : SendStep(t)

Spec == Init /\ [][Next]_vars

----------------------------------------------------------------------------
(* The server under the traffic of a client that keeps several            *)
(* subscriptions and publishes, next to a client that only subscribes:     *)
(* two labels, filters that select by id or by author, a valid event       *)

MaxSubMsgs == 4     \* inbound messages over all connections

SubLabels == {"s1", "s2"}

\* ids: [3] selects the published event, authors: [A] does not.
SubFilterLists == { << fId >>, << fAuthor >> }

\* The messages of the first client.
SubMessages ==
    {Msg("EVENT", Signed(3), FALSE, "", << >>)}
    \cup {Msg("REQ", NoEvent, FALSE, l, fl) : l \in SubLabels, fl \in SubFilterLists}
    \cup {Msg("CLOSE", NoEvent, FALSE, l, << >>) : l \in SubLabels}

\* The messages of the second client.
WatchMessages == {Msg("REQ", NoEvent, FALSE, "s1", << fId >>)}

RecvSub(c, m) ==
    /\ IsOpen(c)
    /\ Len(tasks) < MaxSubMsgs
    /\ \/ RecvEvent(c, m)
       \/ RecvReq(c, m)
       \/ RecvClose(c, m)

NextSubs ==
    \/ \E c \in Conns : Connect(c)
    \/ \E m \in SubMessages : RecvSub("c1", m)
    \/ \E m \in WatchMessages : RecvSub("c2", m)
    \/ \E t \in 1..Len(tasks) : PutStep(t)
    \/ \E t \in 1..Len(tasks) : FinishEvent(t)
    \/ \E t \in 1..Len(tasks) : ReadStep(t)
    \/ \E t \in 1..Len(tasks) : SendStep(t)

SpecSubs == Init /\ [][NextSubs]_vars

----------------------------------------------------------------------------
(* The main relay: registrations, AcceptEvent calls and the clock *)

MaxAccepts == 2     \* AcceptEvent calls
MaxNow == 2         \* clock ticks

\* A registry that keeps the record it already has for a pubkey.
WithNodeInsertOnly(nodes, node, now) ==
    [k \in DOMAIN nodes \cup {node.pubkey} |->
        IF k \in DOMAIN nodes THEN nodes[k]
        ELSE [url |-> node.url, pubkey |-> node.pubkey,
              metrics |-> node.metrics, last_seen |-> now]]

\* r.blossomNodes[node.Pubkey] = node, with node.LastSeen = time.Now().
WithNode(nodes, node, now) ==
    [k \in DOMAIN nodes \cup {node.pubkey} |->
        IF k = node.pubkey
        THEN [url |-> node.url, pubkey |-> node.pubkey,
              metrics |-> node.metrics, last_seen |-> now]
        ELSE nodes[k]]

\* RegisterBlossomNode(node): LastSeen is set to the time of the call and
\* the entry of the node's pubkey is overwritten.
RegisterBlossomNode(node) ==
    /\ relay' = [relay EXCEPT !.nodes = WithNode(@, node, relay.now)]
    /\ UNCHANGED <<clients, subs, closed, db, out, tasks, accepted, faults, qin, qout>>

\* One call of AcceptEvent.  ret: the bool it returns, which is all its
\* caller gets (msg: no text reaches the caller); log: the line it writes to
\* the server's log.
Call(e, level, ret, node, ref, log) ==
    [ev |-> e, level |-> level, ret |-> ret, node |-> node, ref |-> ref,
     msg |-> "", log |-> log]

\* AcceptEvent(ctx, event).  ok: the answer of the embedded relay to the one
\* event this call hands it.
AcceptEvent(e, ok) ==
    /\ Len(relay.calls) < MaxAccepts
    /\ LET level == ClassifyEvent(e)
           answer == IF ok THEN "true" ELSE "false"
       IN \E node \in FindBlossomNodeForEvent(relay.nodes, e) :
             LET ref == createReferenceEvent(e, node, relay.now)
             IN relay' =
                  IF level = "panic"
                  THEN [relay EXCEPT !.calls =
                           Append(@, Call(e, level, "panic", NoNode, NoEvent, ""))]
                  ELSE IF level \in {"Public", "Limited"} \/ node = NoNode
                  THEN [relay EXCEPT !.main = DefaultAccept(@, e, ok),
                                     !.calls = Append(@, Call(e, level, answer,
                                          NoNode, NoEvent,
                                          IF level = "Private"
                                          THEN "No Blossom node available"
                                          ELSE ""))]
                  ELSE [relay EXCEPT !.main = DefaultAccept(@, ref, ok),
                                     !.calls = Append(@, Call(e, level, "true",
                                          node, ref, "should be forwarded"))]
    /\ UNCHANGED <<clients, subs, closed, db, out, tasks, accepted, faults, qin, qout>>

\* Time passes.
Tick ==
    /\ relay.now < MaxNow
    /\ relay' = [relay EXCEPT !.now = @ + 1]
    /\ UNCHANGED <<clients, subs, closed, db, out, tasks, accepted, faults, qin, qout>>

NextRelay ==
    \/ \E node \in RegNodes : RegisterBlossomNode(node)
    \/ \E e \in RelayEvents, ok \in BOOLEAN : AcceptEvent(e, ok)
    \/ Tick

SpecRelay == Init /\ [][NextRelay]_vars

----------------------------------------------------------------------------
(* The events table of the PostgreSQL storage and its expiry sweep *)

\* The tag lists of the events saved to the table.  Tags are arrays of
\* strings: the second element of an expires_at tag is the decimal text of
\* a time.
StoreTagLists ==
    << << >>,
       << <<"expires_at", "0">> >>,
       << <<"t", "chest">>, <<"expires_at", "1">> >>,
       << <<"expires_at", "2">> >>,
       << <<"expires_at", "3">> >>,
       << <<"expires_at">> >> >>

StoreEvent(j) ==
    [id |-> j, pubkey |-> "A", created_at |-> 0, kind |-> WorkoutRecordKind,
     tags |-> StoreTagLists[j], content |-> "c", sig |-> [signer |-> "A", msg |-> j]]

StoreEvents == {StoreEvent(j) : j \in 1..Len(StoreTagLists)}

\* The value of a text as a decimal number, "error" when it is not one.
DecimalValue(body) ==
    CASE body = "0" -> 0
      [] body = "1" -> 1
      [] body = "2" -> 2
      [] body = "3" -> 3
      [] OTHER -> "error"

\* (tag->1)::text of a jsonb string: its JSON text, double quotes included.
JsonbText(v) == [quoted |-> TRUE, body |-> v]

\* text::int: invalid input syntax unless the text is a number; a text that
\* starts with a double quote is not one.
TextToInt(t) == IF t.quoted THEN "error" ELSE DecimalValue(t.body)

\* The WHERE clause of the subquery for one element of tags:
\*   tag->0 = '"expires_at"' AND (tag->1)::text::int < $1.
\* tag->1 of a one-element array is NULL and the comparison is not true.
\* SQL fixes no order of evaluation for the operands of AND: castFirst says
\* whether the cast is evaluated for a tag whose name does not match.
TagExpired(tag, now, castFirst) ==
    LET named == Len(tag) >= 1 /\ tag[1] = "expires_at"
        cast == IF Len(tag) >= 2 THEN TextToInt(JsonbText(tag[2])) ELSE "null"
    IN IF ~named /\ ~castFirst THEN "false"
       ELSE IF cast = "error" THEN "error"
       ELSE IF named /\ cast # "null" /\ cast < now THEN "true"
       ELSE "false"

RECURSIVE RowExpired(_, _, _, _)
\* EXISTS (SELECT 1 FROM jsonb_array_elements(tags) AS tag WHERE ...) for one
\* row, from tag i on.
RowExpired(tags, i, now, castFirst) ==
    IF i > Len(tags) THEN "false"
    ELSE LET r == TagExpired(tags[i], now, castFirst)
         IN IF r = "false" THEN RowExpired(tags, i + 1, now, castFirst) ELSE r

\* INSERT INTO events ... ON CONFLICT (id) DO NOTHING: a row whose id is
\* already in the table is not written.
InsertRow(rows, e) ==
    IF \E r \in rows : r.id = e.id THEN rows ELSE rows \cup {e}

\* SaveEvent(event)
SaveEvent(e) ==
    /\ relay' = [relay EXCEPT !.events = InsertRow(@, e)]
    /\ UNCHANGED <<clients, subs, closed, db, out, tasks, accepted, faults, qin, qout>>

\* DeleteExpiredEvents() at time.Now(): one DELETE statement.  An error in
\* the evaluation of any row fails the statement, which then deletes nothing.
DeleteExpiredEvents ==
    \E castFirst \in BOOLEAN :
        LET verdict == [e \in relay.events |->
                           RowExpired(e.tags, 1, relay.now, castFirst)]
            failed == \E e \in relay.events : verdict[e] = "error"
            rows == IF failed THEN relay.events
                    ELSE {e \in relay.events : verdict[e] # "true"}
        IN /\ relay' = [relay EXCEPT !.events = rows,
                                     !.swept = [at |-> relay.now, err |-> failed,
                                                before |-> relay.events,
                                                after |-> rows]]
           /\ UNCHANGED <<clients, subs, closed, db, out, tasks, accepted, faults,
                          qin, qout>>

NextStore ==
    \/ \E e \in StoreEvents : SaveEvent(e)
    \/ DeleteExpiredEvents
    \/ Tick

SpecStore == Init /\ [][NextStore]_vars

----------------------------------------------------------------------------
(* The registration endpoint /register-blossom *)

StatusOK == 200
StatusBadRequest == 400
StatusMethodNotAllowed == 405

NodeFields == {"url", "pubkey", "supported_metrics"}

\* The request bodies: text that is not JSON, and JSON objects that hold
\* all, some or none of the fields of a node.
RegBodies ==
    {[json |-> FALSE, has |-> {}, node |-> NoNode]} \cup
    {[json |-> TRUE, has |-> h, node |-> n] :
        h \in {NodeFields, {"url", "supported_metrics"}, {"url", "pubkey"}, {}},
        n \in RegNodes}

RegRequests == {[method |-> m, body |-> b] : m \in {"GET", "POST"}, b \in RegBodies}

\* json.NewDecoder(req.Body).Decode(&node): an error for text that is not
\* JSON; a field the object does not hold keeps its zero value.
Decode(body) ==
    [err |-> ~body.json,
     node |-> [url |-> IF "url" \in body.has THEN body.node.url ELSE "",
               pubkey |-> IF "pubkey" \in body.has THEN body.node.pubkey ELSE "",
               metrics |-> IF "supported_metrics" \in body.has
                           THEN body.node.metrics ELSE << >>]]

Resp(req, status) ==
    [status |-> status, req |-> req, before |-> relay.nodes, at |-> relay.now]

\* The relay after the handler of /register-blossom has answered req.
Registered(req) ==
    IF req.method # "POST"
    THEN [relay EXCEPT !.resp = Resp(req, StatusMethodNotAllowed)]
    ELSE IF Decode(req.body).err
    THEN [relay EXCEPT !.resp = Resp(req, StatusBadRequest)]
    ELSE [relay EXCEPT !.nodes = WithNode(@, Decode(req.body).node, relay.now),
                       !.resp = Resp(req, StatusOK)]

\* The handler of /register-blossom.
HandleRegister(req) ==
    /\ relay' = Registered(req)
    /\ UNCHANGED <<clients, subs, closed, db, out, tasks, accepted, faults, qin, qout>>

NextRegister ==
    \/ \E req \in RegRequests : HandleRegister(req)
    \/ Tick

SpecRegister == Init /\ [][NextRegister]_vars

----------------------------------------------------------------------------
(* The Blossom node's registration with the main relay *)

\* blossomInfo: the node's pubkey and supportedMetrics; url is the address
\* the node derives from the request it serves.
blossomInfo ==
    [pubkey |-> "B0", url |-> "ub",
     supportedMetrics |-> << 32018, 32019, 32020, 32021, 32022, 32023, 32024, 32025,
                             WorkoutRecordKind, ExerciseTemplateKind,
                             WorkoutTemplateKind >>]

\* regData of the /register route: the keys of the JSON object it posts.
regDataKeys == {"url", "pubkey", "supportedMetrics"}

\* The request the /register route sends to the relay.  The decoder of the
\* relay fills a field from the key of its json tag (letter case aside);
\* a key it does not know is ignored.
RegDataRequest ==
    [method |-> "POST",
     body |-> [json |-> TRUE, has |-> regDataKeys \cap NodeFields,
               node |-> [url |-> blossomInfo.url, pubkey |-> blossomInfo.pubkey,
                         metrics |-> blossomInfo.supportedMetrics]]]

\* server.listen's callback: fetch(`http://localhost:${port}/register`), a
\* GET request.
Listen ==
    /\ relay.blossom.pc = "init"
    /\ relay' = [relay EXCEPT !.blossom.pc = "fetch"]
    /\ UNCHANGED <<clients, subs, closed, db, out, tasks, accepted, faults, qin, qout>>

\* The routes of the node that match a request to /register: the handler is
\* installed with app.post.
RouteMatches(method) == method = "POST"

\* The node answers its own start-up request.  The request is a GET and no
\* route matches it: the /register handler does not run.
StartupReply ==
    /\ relay.blossom.pc = "fetch"
    /\ relay' = IF RouteMatches("GET")
                THEN [Registered(RegDataRequest) EXCEPT
                         !.blossom = [pc |-> "done", reply |-> "registered"]]
                ELSE [relay EXCEPT !.blossom = [pc |-> "done", reply |-> "no route"]]
    /\ UNCHANGED <<clients, subs, closed, db, out, tasks, accepted, faults, qin, qout>>

\* app.post('/register'): a client posts to the node's /register route, which
\* posts regData to the relay's /register-blossom.
PostRegister ==
    /\ relay.blossom.pc # "init"
    /\ RouteMatches("POST")
    /\ relay' = Registered(RegDataRequest)
    /\ UNCHANGED <<clients, subs, closed, db, out, tasks, accepted, faults, qin, qout>>

NextNode ==
    \/ Listen
    \/ StartupReply
    \/ PostRegister
    \/ \E node \in RegNodes : RegisterBlossomNode(node)
    \/ Tick

SpecNode == Init /\ [][NextNode]_vars

----------------------------------------------------------------------------
(* queryEvents and eventMatchesFilters on their own: any store of accepted *)
(* events, any filter list                                                *)

QueryFilters ==
    { fIds, fIdsAuthor, fAuthor, fAuthorSince, fAuthorKind, fAuthorsLimit, fKind,
      fKindUntil, fKindTag, fTag, fKindsEmpty, fKindsEmptyAuthor, fSince, fEmpty }

QueryFilterLists ==
    {<< f >> : f \in QueryFilters} \cup {<< f, g >> : f, g \in QueryFilters}

InitQuery ==
    /\ clients = << >>
    /\ subs = [c \in Conns |-> << >>]
    /\ closed = {}
    /\ db \in {StoreOf(S) : S \in SUBSET ValidEvents}
    /\ out = [c \in Conns |-> << >>]
    /\ tasks = << >>
    /\ accepted = << >>
    /\ faults = 0
    /\ qin = << >>
    /\ qout = NoQuery
    /\ relay = NoRelay

Query ==
    /\ ~qout.done
    /\ \E fl \in QueryFilterLists :
          /\ qin' = fl
          /\ qout' = [done |-> TRUE, err |-> queryEvents(db, fl).err,
                      events |-> queryEvents(db, fl).events,
                      matched |-> {e \in ValidEvents :
                                      eventMatchesFilters(e, fl) = "true"}]
    /\ UNCHANGED <<clients, subs, closed, db, out, tasks, accepted, faults, relay>>

NextQuery == Query

SpecQuery == InitQuery /\ [][NextQuery]_vars

----------------------------------------------------------------------------
(* What the specification asks of the server *)

\* The tag of a `#x` key: first element x, second element in the value set.
HasTag(e, name, values) ==
    \E i \in 1..Len(e.tags) :
        Len(e.tags[i]) >= 2 /\ e.tags[i][1] = name /\ InSeq(e.tags[i][2], values)

TagsSatisfied(f, e) ==
    \A i \in 1..Len(f.tags) : HasTag(e, f.tags[i].name, f.tags[i].values)

\* The populated fields among ids, authors, kinds, since, until all match.
FieldsSatisfied(f, e) ==
    /\ ("ids" \in f.has /\ f.ids # << >>) => InSeq(e.id, f.ids)
    /\ ("authors" \in f.has /\ f.authors # << >>) => InSeq(e.pubkey, f.authors)
    /\ ("kinds" \in f.has /\ f.kinds # << >>) => InSeq(e.kind, f.kinds)
    /\ "since" \in f.has => e.created_at >= f.since
    /\ "until" \in f.has => e.created_at <= f.until

\* A filter matches an event iff every populated field matches; the empty
\* filter and a filter with an empty list match nothing.
Satisfies(f, e) ==
    /\ ~f.isnull
    /\ f.has # {} \/ f.tags # << >>
    /\ "ids" \in f.has => f.ids # << >>
    /\ "authors" \in f.has => f.authors # << >>
    /\ "kinds" \in f.has => f.kinds # << >>
    /\ FieldsSatisfied(f, e)
    /\ TagsSatisfied(f, e)

SatisfiesAny(filters, e) == \E i \in 1..Len(filters) : Satisfies(filters[i], e)

\* The positions of the frames on c that pass the test.
FramesOf(c, Test(_)) == {i \in 1..Len(out[c]) : Test(out[c][i])}

IsReq(t) == tasks[t].type = "REQ" /\ tasks[t].label # ""
IsPublish(t) == tasks[t].type = "EVENT" /\ ~tasks[t].undef
Settled(t) == tasks[t].pc = "done" /\ tasks[t].conn \notin closed

Ids(events) == {events[i].id : i \in 1..Len(events)}

----------------------------------------------------------------------------
\* C1: every PUBLISH whose handler has ended on an open connection, whatever
\* its outcome, was answered on that connection with exactly one OK frame
\* carrying the supplied event id.
C1_ExactlyOneOk ==
    \A t \in 1..Len(tasks) :
        (IsPublish(t) /\ Settled(t)) =>
            LET IsOk(f) == f.type = "OK" /\ f.by = t /\ f.id = tasks[t].ev.id
            IN Cardinality(FramesOf(tasks[t].conn, IsOk)) = 1

\* C2: the frames a settled REQ sent are zero or more EVENT frames of its
\* label followed by exactly one EOSE of its label, for every filter list,
\* also one on which queryEvents throws.
C2_EventsThenEose ==
    \A t \in 1..Len(tasks) :
        (IsReq(t) /\ Settled(t)) =>
            LET c == tasks[t].conn
                Mine(f) == f.by = t
                mine == FramesOf(c, Mine)
                IsEose(f) == f.by = t /\ f.type = "EOSE" /\ f.sub = tasks[t].label
                eose == FramesOf(c, IsEose)
            IN /\ Cardinality(eose) = 1
               /\ \A i \in mine :
                     \/ i \in eose /\ \A j \in mine : j <= i
                     \/ out[c][i].type = "EVENT" /\ out[c][i].sub = tasks[t].label

\* C3: for each REQ, (a) its backlog frames precede its EOSE, (b) from its
\* arrival until its EOSE no live EVENT frame (of an event its filters match)
\* is sent under its label, and (c) the live frames on a connection are in
\* acceptance order.
C3_BacklogThenLive ==
    \A t \in 1..Len(tasks) :
        IsReq(t) =>
            LET c == tasks[t].conn
                IsEose(f) == f.by = t /\ f.type = "EOSE"
                eose == FramesOf(c, IsEose)
                Before(i) == \A j \in eose : i < j
            IN /\ \A i \in 1..Len(out[c]) :
                     (out[c][i].by = t /\ out[c][i].type = "EVENT") => Before(i)
               /\ \A i \in 1..Len(out[c]) :
                     ~(/\ i > tasks[t].start /\ Before(i)
                       /\ out[c][i].live /\ out[c][i].sub = tasks[t].label
                       /\ SatisfiesAny(tasks[t].filters, out[c][i].ev))
               /\ \A i, j \in 1..Len(out[c]) :
                     (i < j /\ out[c][i].live /\ out[c][j].live) =>
                         \E a, b \in 1..Len(accepted) :
                             /\ a <= b
                             /\ accepted[a].by = out[c][i].by
                             /\ accepted[b].by = out[c][j].by

\* The filter lists on which the specification's matching and the checks of
\* eventMatchesFilters cannot differ: no null, no empty filter, no empty list,
\* no tag key.
Plain(filters) ==
    \A i \in 1..Len(filters) :
        /\ ~filters[i].isnull /\ filters[i].tags = << >> /\ filters[i].has # {}
        /\ \A x \in {"ids", "authors", "kinds"} :
               x \in filters[i].has =>
                   (CASE x = "ids" -> filters[i].ids
                      [] x = "authors" -> filters[i].authors
                      [] OTHER -> filters[i].kinds) # << >>

\* C4: for every accepted event e and every subscription s installed when it
\* was accepted (here: every one with plain filters), the broadcast sent s's
\* connection exactly one EVENT(s.label, e) frame if a filter of s matches e,
\* and none otherwise.
C4_ExactlyOneLiveFrame ==
    \A a \in 1..Len(accepted) :
        \A k \in {j \in 1..Len(accepted[a].subs) : Plain(accepted[a].subs[j].filters)} :
            LET s == accepted[a].subs[k]
                Live(f) == /\ f.type = "EVENT" /\ f.live /\ f.by = accepted[a].by
                           /\ f.sub = s.label /\ f.ev = accepted[a].ev
                n == Cardinality(FramesOf(s.conn, Live))
            IN IF SatisfiesAny(s.filters, accepted[a].ev) THEN n = 1 ELSE n = 0

\* C5: when an event id is accepted a second time, the second PUBLISH is
\* answered OK true, the store holds the event once, and the second
\* acceptance sends no EVENT frame to any subscription (here: to any one
\* whose filters match the event, when neither broadcast threw).
C5_DuplicatePublish ==
    \A a, b \in 1..Len(accepted) :
        (/\ a < b /\ accepted[a].ev.id = accepted[b].ev.id
         /\ ~accepted[a].threw /\ ~accepted[b].threw) =>
            LET t == accepted[b].by
                IsOkTrue(f) == f.type = "OK" /\ f.by = t /\ f.ok
                Again(f) == /\ f.type = "EVENT" /\ f.by = t
                            /\ \E k \in 1..Len(accepted[b].subs) :
                                  /\ accepted[b].subs[k].label = f.sub
                                  /\ SatisfiesAny(accepted[b].subs[k].filters, f.ev)
            IN /\ tasks[t].conn \notin closed =>
                     Cardinality(FramesOf(tasks[t].conn, IsOkTrue)) = 1
               /\ accepted[b].ev.id \in DOMAIN db.event
               /\ db.event[accepted[b].ev.id] = accepted[b].ev
               /\ \A c \in Conns : FramesOf(c, Again) = {}

\* C6: every event a backlog query returns satisfies at least one filter of
\* the list on all its populated fields among ids, authors, kinds, since,
\* until together.
C6_ResultsSatisfyAFilter ==
    (qout.done /\ ~qout.err) =>
        \A k \in 1..Len(qout.events) :
            \E i \in 1..Len(qin) : FieldsSatisfied(qin[i], qout.events[k])

\* The filter lists whose filters each select by ids, authors or kinds and
\* carry neither a limit nor a tag key.
Selecting(filters) ==
    \A i \in 1..Len(filters) :
        /\ Plain(<< filters[i] >>) /\ ReadsDb(filters[i])
        /\ "limit" \notin filters[i].has

RECURSIVE Reverse(_)
Reverse(s) == IF s = << >> THEN << >> ELSE Reverse(Tail(s)) \o << Head(s) >>

\* C7: the backlog for F1..Fn holds every stored event that satisfies at
\* least one Fi, is the same set whatever the order of the filters, and holds
\* no event id twice.
C7_UnionOfFilters ==
    (qout.done /\ ~qout.err /\ Selecting(qin)) =>
        /\ \A id \in DOMAIN db.event :
              SatisfiesAny(qin, db.event[id]) => id \in Ids(qout.events)
        /\ Ids(queryEvents(db, Reverse(qin)).events) = Ids(qout.events)
        /\ Cardinality(Ids(qout.events)) = Len(qout.events)

\* C8: the backlog is in created_at descending order, events with the same
\* created_at in ascending order of id.
C8_BacklogOrder ==
    qout.done =>
        \A i, j \in 1..Len(qout.events) :
            i < j =>
                \/ qout.events[i].created_at > qout.events[j].created_at
                \/ /\ qout.events[i].created_at = qout.events[j].created_at
                   /\ qout.events[i].id < qout.events[j].id

\* C9: an EVENT frame sent for a subscription, from its backlog or live,
\* carries an event that has, for some filter of the subscription, a tag
\* (x, v) with v in V for every key #x: V of that filter.
C9_TagFilters ==
    /\ \A t \in 1..Len(tasks) :
          IsReq(t) =>
              \A i \in 1..Len(out[tasks[t].conn]) :
                  LET f == out[tasks[t].conn][i]
                  IN (f.type = "EVENT" /\ f.by = t) =>
                         \E k \in 1..Len(tasks[t].filters) :
                             TagsSatisfied(tasks[t].filters[k], f.ev)
    /\ \A a \in 1..Len(accepted) :
          \A k \in 1..Len(accepted[a].subs) :
              LET s == accepted[a].subs[k]
              IN \A i \in 1..Len(out[s.conn]) :
                    LET f == out[s.conn][i]
                    IN (f.live /\ f.by = accepted[a].by /\ f.sub = s.label) =>
                           \E n \in 1..Len(s.filters) :
                               TagsSatisfied(s.filters[n], f.ev)

\* C10: a subscription whose only filter is {} gets no EVENT frame: none in
\* its backlog and none live.
C10_EmptyFilterMatchesNothing ==
    /\ \A t \in 1..Len(tasks) :
          (IsReq(t) /\ tasks[t].filters = << fEmpty >>) =>
              \A i \in 1..Len(out[tasks[t].conn]) :
                  ~(out[tasks[t].conn][i].type = "EVENT" /\ out[tasks[t].conn][i].by = t)
    /\ \A a \in 1..Len(accepted) :
          \A k \in 1..Len(accepted[a].subs) :
              LET s == accepted[a].subs[k]
              IN s.filters = << fEmpty >> =>
                    \A i \in 1..Len(out[s.conn]) :
                        ~(/\ out[s.conn][i].live /\ out[s.conn][i].by = accepted[a].by
                          /\ out[s.conn][i].sub = s.label)

\* A filter whose kinds key is present and holds the empty list.
KindsEmpty(f) == "kinds" \in f.has /\ f.kinds = << >>

\* C11: a filter list whose filters all carry `kinds: []` selects no event:
\* the backlog query returns nothing and live matching accepts no event,
\* whatever the other fields of the filters are.
C11_EmptyKindsMatchesNothing ==
    (qout.done /\ \A i \in 1..Len(qin) : KindsEmpty(qin[i])) =>
        /\ qout.events = << >>
        /\ qout.matched = {}

\* The frames the handler of message t sent on its connection, in order.
FramesBy(t) ==
    LET Mine(f) == f.by = t IN SelectSeq(out[tasks[t].conn], Mine)

\* The PUBLISH handlers of event id on connection c that were answered OK
\* true within the first n frames sent on c.
AcceptedBefore(c, id, n) ==
    {out[c][i].by : i \in {j \in 1..n : /\ out[c][j].type = "OK" /\ out[c][j].ok
                                         /\ out[c][j].id = id}}

\* C12: a REQ with ids: [e.id] that a client sends after its PUBLISH of the
\* valid event e was answered OK true (once, or twice for the same e) is
\* answered with exactly one EVENT frame carrying e unchanged, then EOSE.
C12_PutThenGet ==
    \A t \in 1..Len(tasks) :
        (/\ IsReq(t) /\ Settled(t) /\ tasks[t].filters = << fId >>
         /\ AcceptedBefore(tasks[t].conn, 3, tasks[t].start) # {}) =>
            FramesBy(t) = << EventFrame(tasks[t].label, Signed(3), t, FALSE),
                             Eose(tasks[t].label, t) >>

\* Witness of C12: the event was accepted twice, and the REQ sent after both
\* OK frames got the event once, then EOSE.
C12_Witness ==
    \E t \in 1..Len(tasks) :
        /\ IsReq(t) /\ Settled(t) /\ tasks[t].filters = << fId >>
        /\ Cardinality(AcceptedBefore(tasks[t].conn, 3, tasks[t].start)) = 2
        /\ FramesBy(t) = << EventFrame(tasks[t].label, Signed(3), t, FALSE),
                            Eose(tasks[t].label, t) >>

\* A PUBLISH of an event that lacks a required field, carries an id that is
\* not the hash of its content, a signature of another key, or a kind outside
\* the allow-list.
IsInvalidPublish(t) == IsPublish(t) /\ tasks[t].ev \in InvalidEvents

\* C13: a PUBLISH that fails validation, once handled on an open connection,
\* was answered with an OK frame carrying the supplied id, success false and
\* a message, and the connection is still registered with the server.
C13_RejectedWithOk ==
    \A t \in 1..Len(tasks) :
        (IsInvalidPublish(t) /\ Settled(t)) =>
            /\ \E i \in 1..Len(out[tasks[t].conn]) :
                  LET f == out[tasks[t].conn][i]
                  IN /\ f.type = "OK" /\ f.by = t /\ f.id = tasks[t].ev.id
                     /\ ~f.ok /\ f.msg # ""
            /\ IsOpen(tasks[t].conn)

\* The frames sent on c by the step.
NewFrames(c) == {out'[c][i] : i \in (Len(out[c]) + 1)..Len(out'[c])}

\* C14: a PUBLISH that fails validation changes neither the primary store
\* nor an index nor a subscription table, and no EVENT frame is sent for it:
\* the step that handles it leaves them unchanged and ends the handler, and
\* no broadcast and no EVENT frame is ever attributed to it.
C14_RejectedNoEffect ==
    /\ [](\A t \in 1..Len(tasks) :
             IsInvalidPublish(t) =>
                 /\ tasks[t].pc = "done"
                 /\ \A a \in 1..Len(accepted) : accepted[a].by # t
                 /\ \A c \in Conns : \A i \in 1..Len(out[c]) :
                        out[c][i].by = t => out[c][i].type # "EVENT")
    /\ [][(/\ Len(tasks') = Len(tasks) + 1
           /\ tasks'[Len(tasks')].type = "EVENT" /\ ~tasks'[Len(tasks')].undef
           /\ tasks'[Len(tasks')].ev \in InvalidEvents) =>
              /\ db' = db /\ subs' = subs /\ clients' = clients
              /\ accepted' = accepted
              /\ \A c \in Conns : \A f \in NewFrames(c) : f.type # "EVENT"]_vars

\* Witness of C14: an event with a signature of another key was published
\* and rejected while a subscription whose filters select its kind was
\* installed, and the store and the subscription are as they were.
C14_Witness ==
    \E t \in 1..Len(tasks) :
        /\ IsInvalidPublish(t) /\ tasks[t].ev = EvBadSig /\ Settled(t)
        /\ \E c \in Conns : \E k \in 1..Len(subs[c]) :
              subs[c][k].filters = << fAuthor, fKind >>
        /\ \E u \in 1..(t - 1) : IsReq(u) /\ tasks[u].pc = "done"
        /\ db = EmptyDb

\* The kinds the relay supports.
Allowed(kind) ==
    \/ kind \in {WorkoutRecordKind, ExerciseTemplateKind, WorkoutTemplateKind}
    \/ kind >= HealthEventMinKind /\ kind <= HealthEventMaxKind

\* C15: every event the main relay has accepted for storing, the events it
\* created itself included, has a kind of the allow-list, and an AcceptEvent
\* call for an event of another kind does not return true.
C15_OnlyAllowedKinds ==
    /\ \A i \in 1..Len(relay.main) : Allowed(relay.main[i].kind)
    /\ \A i \in 1..Len(relay.calls) :
          ~Allowed(relay.calls[i].ev.kind) => relay.calls[i].ret # "true"

\* C16: the messages of one connection are handled one after the other:
\* when a later message of a connection is being handled or has been handled,
\* the handler of every earlier message of that connection has ended.
C16_InOrderPerConnection ==
    \A t, u \in 1..Len(tasks) :
        (t < u /\ tasks[t].conn = tasks[u].conn) => tasks[t].pc = "done"

\* The subscriptions of m other than the one with the label, in order.
Without(m, label) == LET Other(x) == x.label # label IN SelectSeq(m, Other)

\* C17: the step that handles CLOSE(label) on connection c removes the
\* subscription with that label from c's table and nothing else, leaves the
\* tables of the other connections, the store and the client table unchanged
\* and sends no frame (for a label that is not installed nothing changes);
\* and a live EVENT frame sent on c under the label after the CLOSE arrived
\* was sent after a later REQ of c with that label arrived.
C17_CloseRemovesOne ==
    /\ [](\A u \in 1..Len(tasks) :
             tasks[u].type = "CLOSE" =>
                 \A i \in (tasks[u].start + 1)..Len(out[tasks[u].conn]) :
                     LET f == out[tasks[u].conn][i]
                     IN (f.live /\ f.sub = tasks[u].label) =>
                            \E v \in (u + 1)..Len(tasks) :
                                /\ tasks[v].type = "REQ" /\ tasks[v].conn = tasks[u].conn
                                /\ tasks[v].label = tasks[u].label
                                /\ tasks[v].start < i)
    /\ [][(Len(tasks') = Len(tasks) + 1 /\ tasks'[Len(tasks')].type = "CLOSE") =>
              LET c == tasks'[Len(tasks')].conn
                  l == tasks'[Len(tasks')].label
              IN /\ subs'[c] = Without(subs[c], l)
                 /\ \A d \in Conns \ {c} : subs'[d] = subs[d]
                 /\ out' = out /\ db' = db /\ clients' = clients
                 /\ accepted' = accepted]_vars

\* Witness of C17: a client installed s1 and s2 with the same filter, closed
\* s1, and the event accepted afterwards was sent under s2 and not under s1.
C17_Witness ==
    \E u \in 1..Len(tasks) : \E a \in 1..Len(accepted) :
        LET c == tasks[u].conn
            Under(l) == {i \in 1..Len(out[c]) :
                            /\ out[c][i].live /\ out[c][i].sub = l
                            /\ out[c][i].by = accepted[a].by}
        IN /\ tasks[u].type = "CLOSE" /\ tasks[u].label = "s1"
           /\ \E v \in 1..(u - 1) :
                 /\ tasks[v].type = "REQ" /\ tasks[v].conn = c
                 /\ tasks[v].label = "s1" /\ tasks[v].filters = << fId >>
           /\ subs[c] = << [label |-> "s2", filters |-> << fId >>] >>
           /\ accepted[a].by > u
           /\ Under("s1") = {} /\ Under("s2") # {}

\* The REQ messages of connection c with the label that arrived before the
\* frame at position i of c was sent.
ReqsBefore(c, label, i) ==
    {v \in 1..Len(tasks) : /\ tasks[v].type = "REQ" /\ tasks[v].conn = c
                            /\ tasks[v].label = label /\ tasks[v].start < i}

\* The REQ t arrived while its label was installed on its connection.
Reuses(t) ==
    /\ IsReq(t)
    /\ \E v \in 1..(t - 1) :
          /\ IsReq(v) /\ tasks[v].conn = tasks[t].conn /\ tasks[v].label = tasks[t].label
          /\ \A u \in (v + 1)..(t - 1) :
                ~(/\ tasks[u].type = "CLOSE" /\ tasks[u].conn = tasks[t].conn
                  /\ tasks[u].label = tasks[t].label)

\* C18: (a) a REQ that reuses a label is answered with EVENT frames of events
\* its own filters select and then EOSE; (b) the step that handles it puts
\* its filters in the place of the old ones and changes no other entry, and
\* a live EVENT frame under a label carries an event that the filters of the
\* latest REQ with that label select; (c) no table holds a label twice;
\* (d) an accepted event is sent live at most once under a label of a
\* connection.
C18_ReplaceSubscription ==
    /\ [](/\ \A t \in 1..Len(tasks) :
               (Reuses(t) /\ Settled(t)) =>
                   /\ FramesBy(t) # << >>
                   /\ FramesBy(t)[Len(FramesBy(t))] = Eose(tasks[t].label, t)
                   /\ \A i \in 1..(Len(FramesBy(t)) - 1) :
                         /\ FramesBy(t)[i].type = "EVENT"
                         /\ FramesBy(t)[i].sub = tasks[t].label
                         /\ SatisfiesAny(tasks[t].filters, FramesBy(t)[i].ev)
          /\ \A c \in Conns : \A i \in 1..Len(out[c]) :
               out[c][i].live =>
                   LET reqs == ReqsBefore(c, out[c][i].sub, i)
                   IN /\ reqs # {}
                      /\ \A v \in reqs :
                            (\A w \in reqs : w <= v) =>
                                SatisfiesAny(tasks[v].filters, out[c][i].ev)
          /\ \A c \in Conns : \A i, j \in 1..Len(subs[c]) :
               subs[c][i].label = subs[c][j].label => i = j
          /\ \A a \in 1..Len(accepted) : \A c \in Conns : \A i, j \in 1..Len(out[c]) :
               (/\ out[c][i].live /\ out[c][j].live
                /\ out[c][i].by = accepted[a].by /\ out[c][j].by = accepted[a].by
                /\ out[c][i].sub = out[c][j].sub) => i = j)
    /\ [][(/\ Len(tasks') = Len(tasks) + 1
           /\ tasks'[Len(tasks')].type = "REQ" /\ tasks'[Len(tasks')].label # "") =>
              LET c == tasks'[Len(tasks')].conn
                  l == tasks'[Len(tasks')].label
                  Mine(x) == x.label = l
              IN /\ Without(subs'[c], l) = Without(subs[c], l)
                 /\ SelectSeq(subs'[c], Mine) =
                        << [label |-> l, filters |-> tasks'[Len(tasks')].filters] >>
                 /\ \A d \in Conns \ {c} : subs'[d] = subs[d]]_vars

\* Witness of C18: s1 was installed with a filter that selects the event and
\* then again with one that does not; the event accepted afterwards met the
\* new filters only and no frame was sent for it.
C18_Witness ==
    \E t \in 1..Len(tasks) : \E a \in 1..Len(accepted) :
        /\ Reuses(t) /\ Settled(t) /\ tasks[t].filters = << fAuthor >>
        /\ \E v \in 1..(t - 1) :
              /\ IsReq(v) /\ tasks[v].conn = tasks[t].conn
              /\ tasks[v].label = tasks[t].label /\ tasks[v].filters = << fId >>
        /\ accepted[a].by > t
        /\ accepted[a].subs = << [conn |-> tasks[t].conn, label |-> tasks[t].label,
                                  filters |-> << fAuthor >>] >>
        /\ \A i \in 1..Len(out[tasks[t].conn]) : ~out[tasks[t].conn][i].live

RECURSIVE NamedLevel(_, _)
\* The level named by the first tag from position i on whose first element
\* is privacy or privacy_level and whose second element is recognized;
\* "none" when there is no such tag.
NamedLevel(tags, i) ==
    IF i > Len(tags) THEN "none"
    ELSE IF /\ Len(tags[i]) >= 2 /\ tags[i][1] \in {"privacy", "privacy_level"}
            /\ tags[i][2] \in {"public", "limited", "friends", "private"}
    THEN (CASE tags[i][2] = "public" -> "Public"
            [] tags[i][2] = "private" -> "Private"
            [] OTHER -> "Limited")
    ELSE NamedLevel(tags, i + 1)

\* C20: the classification of an event (here: of a supported kind) that has
\* a privacy or privacy_level tag with a recognized value is the level the
\* first such tag names, whatever the kind and whatever tags precede it.
C20_FirstPrivacyTagWins ==
    \A i \in 1..Len(relay.calls) :
        LET e == relay.calls[i].ev
        IN (Allowed(e.kind) /\ NamedLevel(e.tags, 1) # "none") =>
               relay.calls[i].level = NamedLevel(e.tags, 1)

\* The default level of a supported kind.
KindDefault(kind) ==
    CASE kind \in {ExerciseTemplateKind, WorkoutTemplateKind} -> "Public"
      [] kind = WorkoutRecordKind -> "Limited"
      [] kind >= PublicHealthMinKind /\ kind <= HealthEventMaxKind -> "Public"
      [] kind >= LimitedHealthMinKind /\ kind <= LimitedHealthMaxKind -> "Limited"
      [] OTHER -> "Private"

\* C21: the classification of an event of a supported kind that has no
\* privacy or privacy_level tag with a recognized value is the default of
\* its kind.
C21_KindDefault ==
    \A i \in 1..Len(relay.calls) :
        LET e == relay.calls[i].ev
        IN (Allowed(e.kind) /\ NamedLevel(e.tags, 1) = "none") =>
               relay.calls[i].level = KindDefault(e.kind)

\* The AcceptEvent calls for an event classified PRIVATE for which no
\* Blossom node was found, and those for which one was chosen.
FallbackCalls ==
    {i \in 1..Len(relay.calls) :
        relay.calls[i].level = "Private" /\ relay.calls[i].node = NoNode}

RoutedCalls ==
    {i \in 1..Len(relay.calls) :
        relay.calls[i].level = "Private" /\ relay.calls[i].node # NoNode}

\* C22: a PRIVATE event published when no Blossom node is registered or
\* supports its kind is stored on the main relay and acknowledged with
\* success and a message saying that no satellite is available.
C22_FallbackLocal ==
    \A i \in FallbackCalls :
        relay.calls[i].ret = "true" =>
            /\ InSeq(relay.calls[i].ev, relay.main)
            /\ relay.calls[i].msg # ""

\* C23: an event whose privacy tag names the level private is never stored
\* on the main relay, whatever Blossom nodes are registered.
C23_PrivateNeverOnMain ==
    \A i \in 1..Len(relay.main) :
        NamedLevel(relay.main[i].tags, 1) # "Private"

\* The reference events of the main relay that point to the event id.
ReferencesTo(id) ==
    {i \in 1..Len(relay.main) :
        /\ relay.main[i].kind = ReferenceKind
        /\ Len(relay.main[i].tags) >= 1
        /\ relay.main[i].tags[1] = <<"e", id>>}

\* C24: when AcceptEvent reports success for a PRIVATE event routed to a
\* Blossom node, a reference event pointing to its id is stored on the main
\* relay.
C24_AckOnlyWhenReferenceStored ==
    \A i \in RoutedCalls :
        relay.calls[i].ret = "true" => ReferencesTo(relay.calls[i].ev.id) # {}

\* C25: a PRIVATE event acknowledged with a Blossom node chosen is handed
\* to that node, or its loss is reported in a NOTICE: it is never silently
\* lost.  The relay has no step that forwards or reports later, so the
\* property is stated on the states themselves.
C25_ForwardedOrReported ==
    \A i \in RoutedCalls :
        relay.calls[i].ret = "true" =>
            \/ \E k \in 1..Len(relay.sent) :
                  /\ relay.sent[k].ev = relay.calls[i].ev
                  /\ relay.sent[k].node = relay.calls[i].node.pubkey
            \/ \E k \in 1..Len(relay.notices) :
                  relay.notices[k].id = relay.calls[i].ev.id

\* The times named by the expires_at tags of an event.
ExpiryTimes(e) ==
    {DecimalValue(e.tags[i][2]) :
        i \in {k \in 1..Len(e.tags) :
                 Len(e.tags[k]) >= 2 /\ e.tags[k][1] = "expires_at"}}

\* C26: after an expiry sweep run at time T no event with a tag
\* ["expires_at", t], t <= T, is left in the store, and the events without
\* such a tag or with t > T are all still there.
C26_ExpirySweep ==
    relay.swept.at >= 0 =>
        /\ \A e \in relay.swept.after :
               \A t \in ExpiryTimes(e) : t > relay.swept.at
        /\ \A e \in relay.swept.before :
               (\A t \in ExpiryTimes(e) : t > relay.swept.at) =>
                   e \in relay.swept.after

\* A body the endpoint must refuse: not JSON, or without one of the fields.
Malformed(body) == ~body.json \/ body.has # NodeFields

\* C27: the registration endpoint answers 405 to a request that is not a
\* POST, 400 to a POST with a malformed body (a body without the pubkey, the
\* url or the supported kinds included) and 200 to a well-formed POST; on 405
\* and 400 the registry is unchanged, on 200 the record is in the registry
\* with last-seen = now.
C27_RegistrationEndpoint ==
    LET r == relay.resp
    IN r.status # 0 =>
         IF r.req.method # "POST"
         THEN r.status = StatusMethodNotAllowed /\ relay.nodes = r.before
         ELSE IF Malformed(r.req.body)
         THEN r.status = StatusBadRequest /\ relay.nodes = r.before
         ELSE /\ r.status = StatusOK
              /\ r.req.body.node.pubkey \in DOMAIN relay.nodes
              /\ relay.nodes[r.req.body.node.pubkey] =
                     [url |-> r.req.body.node.url,
                      pubkey |-> r.req.body.node.pubkey,
                      metrics |-> r.req.body.node.metrics,
                      last_seen |-> r.at]

\* The inbound messages that are arrays whose command is unknown.
IsUnknownCommand(task) == task.type \notin {"EVENT", "REQ", "CLOSE", "NONARRAY", "BADJSON"}

\* C28: a message whose command is none of EVENT, REQ, CLOSE is answered
\* with one NOTICE frame that names the command; the step that handles it
\* leaves the connection open and changes no subscription and no stored
\* event, so later commands of the connection are still handled.
C28_UnknownCommand ==
    /\ [](\A t \in 1..Len(tasks) :
             IsUnknownCommand(tasks[t]) =>
                 FramesBy(t) = << Notice("Unknown message type: " \o tasks[t].type, t) >>)
    /\ [][\A t \in (Len(tasks) + 1)..Len(tasks') :
             IsUnknownCommand(tasks'[t]) =>
                 /\ UNCHANGED <<clients, subs, closed, db>>
                 /\ InSeq(tasks'[t].conn, clients')
                 /\ tasks'[t].pc = "done"
                 /\ \A c \in Conns :
                        out'[c] = IF c = tasks'[t].conn
                                  THEN Append(out[c], Notice("Unknown message type: "
                                                             \o tasks'[t].type, t))
                                  ELSE out[c]]_vars

\* Witness of C28: an unknown command was answered with its NOTICE, and a
\* REQ sent later on the same connection, which is still open, was answered
\* up to its EOSE.
C28_Witness ==
    \E t, u \in 1..Len(tasks) :
        /\ t < u /\ tasks[t].type = "PING"
        /\ tasks[u].conn = tasks[t].conn /\ IsOpen(tasks[t].conn)
        /\ FramesBy(t) = << Notice("Unknown message type: PING", t) >>
        /\ IsReq(u) /\ tasks[u].pc = "done"
        /\ FramesBy(u) = << Eose(tasks[u].label, u) >>

\* C29: in every state of the store each primary entry has all the index
\* entries handleEvent writes for its event, and each index entry names an
\* id that has a primary entry.
C29_PrimaryAndIndexAgree ==
    /\ \A id \in DOMAIN db.event :
           \A k \in 2..Len(PutKeys(db.event[id])) :
               PutKeys(db.event[id])[k] \in db.index
    /\ \A key \in db.index : key.id \in DOMAIN db.event

\* C30: once a CLOSE of a label has been handled, the REQ of that label
\* received before it on the same connection sends no further EVENT frame
\* and no EOSE frame.
C30_CloseEndsBacklog ==
    \A t, u \in 1..Len(tasks) :
        (/\ t < u /\ IsReq(t)
         /\ tasks[u].type = "CLOSE" /\ tasks[u].label = tasks[t].label
         /\ tasks[u].conn = tasks[t].conn) =>
            \A i \in (tasks[u].start + 1)..Len(out[tasks[t].conn]) :
                LET f == out[tasks[t].conn][i]
                IN ~(f.by = t /\ f.type \in {"EVENT", "EOSE"})

\* The liveness window of a node, in clock ticks: a tick is 24 hours.
LivenessWindow == 1

\* A node is stale when its last-seen time is older than the window.
Live(node) == node.last_seen >= relay.now - LivenessWindow

LiveKeys == {k \in DOMAIN relay.nodes : Live(relay.nodes[k])}

\* The results Route(event) may give: the node of the first blossom tag that
\* names a registered live node; else a live node that supports the kind;
\* else none.
ExpectedRoute(e) ==
    LET named == {i \in 1..Len(e.tags) :
                     /\ Len(e.tags[i]) >= 2 /\ e.tags[i][1] = "blossom"
                     /\ e.tags[i][2] \in LiveKeys}
        first == CHOOSE i \in named : \A j \in named : i <= j
        supporting == {k \in LiveKeys : InSeq(e.kind, relay.nodes[k].metrics)}
    IN IF named # {} THEN {relay.nodes[e.tags[first][2]]}
       ELSE IF supporting # {} THEN {relay.nodes[k] : k \in supporting}
       ELSE {NoNode}

\* C31: Route(event) returns the node named by the event's blossom tag when
\* that node is registered and live, otherwise a live node that supports the
\* kind of the event, otherwise none.
C31_Route ==
    \A e \in RelayEvents :
        FindBlossomNodeForEvent(relay.nodes, e) \subseteq ExpectedRoute(e)

\* C32: a node whose last-seen time is older than the liveness window is
\* returned by Route for no event and is not in the list of nodes.
C32_StaleExcluded ==
    /\ \A e \in RelayEvents :
           \A n \in FindBlossomNodeForEvent(relay.nodes, e) : n # NoNode => Live(n)
    /\ \A n \in GetBlossomNodes(relay.nodes) : Live(n)

\* The decimal digits of a number, as a string.
DecimalString(n) == [decimal |-> n]

\* The tags whose first element is d, t or subject, in order.
SafeEcho(tags) ==
    LET Safe(tag) == Len(tag) >= 1 /\ tag[1] \in {"d", "t", "subject"}
    IN SelectSeq(tags, Safe)

\* C33: the reference event of a PRIVATE event and its node carries the id
\* of the original, its author, its kind as a decimal string, the pubkey and
\* the url of the node, then the d, t and subject tags of the original in
\* their order, and nothing else of the original.
C33_ReferenceContent ==
    \A i \in RoutedCalls :
        LET c == relay.calls[i]
        IN /\ c.ref.tags =
                 << <<"e", c.ev.id>>, <<"p", c.ev.pubkey>>,
                    <<"kind", DecimalString(c.ev.kind)>>,
                    <<"blossom", c.node.pubkey>>, <<"url", c.node.url>> >>
                 \o SafeEcho(c.ev.tags)
           /\ c.ref.content = ""

\* The identity the relay signs with.
RelayIdentity == "R"

\* C34: a reference event handed to the store is a complete event signed
\* by the relay: its pubkey is the relay's identity, it has an id and its
\* signature is the relay's signature of that id.
C34_ReferenceSigned ==
    \A i \in RoutedCalls :
        LET ref == relay.calls[i].ref
        IN /\ ref.pubkey = RelayIdentity
           /\ ref.id # NoEvent.id
           /\ verifySignature(ref)

\* C36: ClassifyEvent returns a level for every event of a workout or health
\* kind, whatever the shape of its tags.
C36_ClassifyTotal ==
    \A i \in 1..Len(relay.calls) :
        Allowed(relay.calls[i].ev.kind) =>
            relay.calls[i].level \in {"Public", "Limited", "Private"}

RECURSIVE SavedRows(_, _)
\* The rows of a store with idempotence on id after the first n events of
\* the main relay were saved in order.
SavedRows(main, n) ==
    IF n = 0 THEN {} ELSE InsertRow(SavedRows(main, n - 1), main[n])

\* C37: the reference events of two different PRIVATE events routed to a
\* node are different events, and both are in the store after they were
\* handed to it: the second is not dropped as a duplicate id.
C37_ReferencesBothStored ==
    \A i, j \in RoutedCalls :
        LET a == relay.calls[i].ref
            b == relay.calls[j].ref
        IN (/\ relay.calls[i].ev # relay.calls[j].ev
            /\ InSeq(a, relay.main) /\ InSeq(b, relay.main)) =>
               /\ a # b
               /\ {a, b} \subseteq SavedRows(relay.main, Len(relay.main))

\* C35: Register is an upsert by pubkey.  The registry holds one record
\* per pubkey, filed under its own pubkey; after a registration the record
\* of its pubkey carries the url and the supported kinds of that
\* registration and last-seen = the time of the registration, and the
\* records of the other pubkeys are as before.
C35_RegisterUpsert ==
    /\ \A k \in DOMAIN relay.nodes :
           relay.nodes[k].pubkey = k /\ relay.nodes[k].last_seen <= relay.now
    /\ LET r == relay.resp
       IN (r.status = StatusOK /\ r.req.body.has = NodeFields) =>
             LET rec == r.req.body.node
             IN /\ DOMAIN relay.nodes = DOMAIN r.before \cup {rec.pubkey}
                /\ relay.nodes[rec.pubkey] =
                       [url |-> rec.url, pubkey |-> rec.pubkey,
                        metrics |-> rec.metrics, last_seen |-> r.at]
                /\ \A k \in DOMAIN r.before \ {rec.pubkey} :
                       relay.nodes[k] = r.before[k]

\* Witness of C35: a pubkey that was registered is registered again later
\* with another url; its record is replaced and the record of another
\* pubkey is still there.
C35_Witness ==
    LET r == relay.resp
    IN /\ r.status = StatusOK /\ r.req.body.has = NodeFields
       /\ r.req.body.node.pubkey \in DOMAIN r.before
       /\ r.before[r.req.body.node.pubkey].url # r.req.body.node.url
       /\ r.before[r.req.body.node.pubkey].last_seen < r.at
       /\ relay.nodes[r.req.body.node.pubkey].url = r.req.body.node.url
       /\ \E k \in DOMAIN r.before : k # r.req.body.node.pubkey

\* C38: once the Blossom node's start-up registration has been answered,
\* the registry of the relay holds a record for the node's pubkey whose
\* supported kinds are the node's supported metrics, and an event of one of
\* those kinds without a blossom tag can be routed to the node.
C38_StartupRegistration ==
    relay.blossom.pc = "done" =>
        /\ blossomInfo.pubkey \in DOMAIN relay.nodes
        /\ relay.nodes[blossomInfo.pubkey].metrics = blossomInfo.supportedMetrics
        /\ \A e \in RelayEvents :
               (InSeq(e.kind, blossomInfo.supportedMetrics)
                /\ BlossomTagFrom(relay.nodes, e.tags, 1) = NoNode) =>
                   relay.nodes[blossomInfo.pubkey]
                       \in FindBlossomNodeForEvent(relay.nodes, e)

\* The filter lists over ids, authors, kinds, since and until only: no
\* filter is null, has a tag key or a limit.
FieldFilters(filters) ==
    \A i \in 1..Len(filters) :
        /\ ~filters[i].isnull /\ filters[i].tags = << >>
        /\ "limit" \notin filters[i].has

\* C40: for a filter list over ids, authors, kinds, since and until, the
\* stored events queryEvents returns are exactly the stored events that
\* eventMatchesFilters accepts.
C40_BacklogAgreesWithLive ==
    (qout.done /\ ~qout.err /\ FieldFilters(qin)) =>
        Ids(qout.events) = {e.id : e \in {x \in qout.matched : x.id \in DOMAIN db.event}}

\* The PUBLISH handlers that were answered OK false.
Refused(t) ==
    /\ IsPublish(t)
    /\ \E i \in 1..Len(out[tasks[t].conn]) :
          LET f == out[tasks[t].conn][i]
          IN f.type = "OK" /\ f.by = t /\ ~f.ok

\* C39: an event whose PUBLISH was answered OK false, and that no other
\* PUBLISH carried, was sent to no subscription and cannot be read from the
\* store: it has no primary entry and no index entry.
C39_RefusedLeavesNothing ==
    \A t \in 1..Len(tasks) :
        (/\ Refused(t)
         /\ \A u \in 1..Len(tasks) :
               (u # t /\ IsPublish(u)) => tasks[u].ev.id # tasks[t].ev.id) =>
            /\ tasks[t].ev.id \notin DOMAIN db.event
            /\ \A key \in db.index : key.id # tasks[t].ev.id
            /\ \A c \in Conns : \A i \in 1..Len(out[c]) :
                   ~(out[c][i].type = "EVENT" /\ out[c][i].id = tasks[t].ev.id)

====
